---- MODULE Spec2Model ----
(***************************************************************************)
(* Mini ECS (src/mini_ecs.h) and the registry the snake demo builds from   *)
(* it (src/mecs_snake.c): the entity allocator, the eight component stores *)
(* of SnakeWorld, destroy_entity, the MECS_FOREACH query scans, and the    *)
(* demo's own functions: init_snake, grow, the movement step, the meal.    *)
(***************************************************************************)
EXTENDS Integers, Sequences, FiniteSets

\* ------------------------------------------------------------ constants

\* mini_ecs.h:26-28, built here with -DMAX_ENTITIES=3.
MAX_ENTITIES == 3

\* How many identifiers the allocator may issue past MAX_ENTITIES in a run
\* (next_entity itself is an unsigned int and is never checked by the code).
MaxOver == 1

\* How many MECS_SET_COMPONENT calls a run of the registry makes.
MaxSets == 3

\* Direction enum, mecs_snake.c:36.
UP == 0
DOWN == 1
LEFT == 2
RIGHT == 3

Slots == 0 .. (MAX_ENTITIES - 1)

\* The stores SnakeWorld registers with MECS_DEFINE_COMPONENT.
Components ==
    {"collidable", "consumer", "direction", "drawable",
     "edible", "follower", "interactable", "position"}

\* What calloc leaves in Name[e] for each store (all bytes zero).
ZeroValue(c) ==
    CASE c = "direction" -> UP
      [] c = "drawable"  -> [symbol |-> 0]
      [] c = "edible"    -> [points |-> 0, grows |-> FALSE, resets |-> FALSE]
      [] c = "follower"  -> 0
      [] c = "position"  -> [x |-> 0, y |-> 0]
      [] OTHER           -> <<>>

\* The value the demo first writes to each store (create_snake_head,
\* create_snake_segment, init_apple): the empty struct for the tag stores.
FirstValue(c) ==
    CASE c = "direction" -> RIGHT
      [] c = "drawable"  -> [symbol |-> 79]
      [] c = "edible"    -> [points |-> 1, grows |-> TRUE, resets |-> TRUE]
      [] c = "follower"  -> 1
      [] c = "position"  -> [x |-> 5, y |-> 5]
      [] OTHER           -> <<>>

\* The values the callers hand to MECS_SET_COMPONENT, per store: a second
\* value for the stores the demo overwrites or fills with several values.
Values(c) ==
    {FirstValue(c)} \cup
    (CASE c = "direction" -> {UP}
       [] c = "position"  -> {[x |-> 4, y |-> 5]}
       [] OTHER           -> {})

\* ---------------------------------------------------------------- state

VARIABLES
    em,       \* SnakeWorld.em: next_entity, free_list[MAX_ENTITIES], free_count
    flag,     \* Name_flag[MAX_ENTITIES] of every store
    val,      \* Name[MAX_ENTITIES] of every store
    live,     \* identifiers returned by create and not yet destroyed
    released, \* identifiers destroyed and not reissued since
    nsets,    \* MECS_SET_COMPONENT calls made so far
    visited,  \* the scan the last call ran: its stores, the entities it visited
    score,    \* SnakeWorld.score
    pc        \* where main() stands: before init_snake, in the loop, after it

vars == <<em, flag, val, live, released, nsets, visited, score, pc>>

NoScan == [cs |-> {}, seq |-> <<>>]

\* new_game(): calloc(1, sizeof(SnakeWorld)).
new_game ==
    /\ em = [next_entity |-> 0, free_list |-> [i \in Slots |-> 0], free_count |-> 0]
    /\ flag = [c \in Components |-> [e \in Slots |-> FALSE]]
    /\ val = [c \in Components |-> [e \in Slots |-> ZeroValue(c)]]
    /\ score = 0

Init ==
    /\ new_game
    /\ live = {}
    /\ released = {}
    /\ nsets = 0
    /\ visited = NoScan
    /\ pc = "new"

\* ------------------------------------------------------------ allocator

\* A create that pops the free list and returns its bottom entry.
mecs_entity_create_bottom(m) ==
    IF m.free_count > 0
    THEN [em  |-> [m EXCEPT !.free_count = @ - 1],
          ret |-> m.free_list[0]]
    ELSE [em  |-> [m EXCEPT !.next_entity = @ + 1],
          ret |-> m.next_entity]

\* A create that advances next_entity on the free-list branch as well.
mecs_entity_create_advance(m) ==
    IF m.free_count > 0
    THEN [em  |-> [m EXCEPT !.free_count = @ - 1, !.next_entity = @ + 1],
          ret |-> m.free_list[m.free_count - 1]]
    ELSE [em  |-> [m EXCEPT !.next_entity = @ + 1],
          ret |-> m.next_entity]

\* mecs_entity_create: the allocator after the call and the value returned.
\* (next_entity is an unsigned int; the runs here stay far below its wrap.)
mecs_entity_create(m) ==
    IF m.free_count > 0
    THEN [em  |-> [m EXCEPT !.free_count = @ - 1],
          ret |-> m.free_list[m.free_count - 1]]
    ELSE [em  |-> [m EXCEPT !.next_entity = @ + 1],
          ret |-> m.next_entity]

\* A destroy that grows the free list without storing e in it.
mecs_entity_destroy_nostore(m, e) ==
    IF m.free_count < MAX_ENTITIES
    THEN [m EXCEPT !.free_count = @ + 1]
    ELSE m

\* A destroy that pushes without testing free_count against MAX_ENTITIES.
mecs_entity_destroy_unguarded(m, e) ==
    [m EXCEPT !.free_list = [i \in DOMAIN @ \cup {m.free_count} |->
                                IF i = m.free_count THEN e ELSE @[i]],
              !.free_count = @ + 1]

\* mecs_entity_destroy: the allocator after the call.
mecs_entity_destroy(m, e) ==
    IF m.free_count < MAX_ENTITIES
    THEN [m EXCEPT !.free_list[m.free_count] = e, !.free_count = @ + 1]
    ELSE m

\* --------------------------------------------------------------- stores

MECS_HAS_COMPONENT(fl, c, e) == fl[c][e]

\* A set that writes the value into every slot of the store.
MECS_SET_COMPONENT_value_all(vl, c, e, v) == [vl EXCEPT ![c] = [x \in Slots |-> v]]

MECS_SET_COMPONENT_value(vl, c, e, v) == [vl EXCEPT ![c][e] = v]

\* A set that writes the value and leaves the flag as it was.
MECS_SET_COMPONENT_flag_kept(fl, c, e) == fl

MECS_SET_COMPONENT_flag(fl, c, e) == [fl EXCEPT ![c][e] = TRUE]

\* A clear that flips the flag.
MECS_CLEAR_COMPONENT_flip(fl, c, e) == [fl EXCEPT ![c][e] = ~@]

MECS_CLEAR_COMPONENT(fl, c, e) == [fl EXCEPT ![c][e] = FALSE]

\* The order of the stores in clear_components.
ClearOrder ==
    <<"collidable", "consumer", "direction", "drawable",
      "edible", "follower", "interactable", "position">>

RECURSIVE clear_from(_, _, _)
clear_from(fl, e, i) ==
    IF i > Len(ClearOrder) THEN fl
    ELSE clear_from(MECS_CLEAR_COMPONENT(fl, ClearOrder[i], e), e, i + 1)

\* A clear_components that forgets the last store, position.
clear_components_short(fl, e) ==
    [c \in Components |-> IF c = "position" THEN fl[c] ELSE [fl[c] EXCEPT ![e] = FALSE]]

\* A clear_components that wipes the position store for every entity.
clear_components_wide(fl, e) ==
    [c \in Components |->
        IF c = "position" THEN [x \in Slots |-> FALSE] ELSE [fl[c] EXCEPT ![e] = FALSE]]

\* clear_components(game, e): one MECS_CLEAR_COMPONENT per store.
clear_components(fl, e) == clear_from(fl, e, 1)

\* get_T(e): the stored value when the flag is set, else absent.
Absent == <<"absent">>
Some(v) == <<"some", v>>
get(fl, vl, c, e) == IF MECS_HAS_COMPONENT(fl, c, e) THEN Some(vl[c][e]) ELSE Absent

\* -------------------------------------------------------------- queries

\* MECS_FOREACH_1/2/3 over the stores cs: the entities the loop body runs
\* for, in the order it runs for them, scanning from slot e upwards.
RECURSIVE MECS_FOREACH_from(_, _, _)
MECS_FOREACH_from(fl, cs, e) ==
    IF ~(e < MAX_ENTITIES) THEN <<>>
    ELSE (IF \A c \in cs : fl[c][e] THEN <<e>> ELSE <<>>)
         \o MECS_FOREACH_from(fl, cs, e + 1)

\* A scan that starts at slot 1.
MECS_FOREACH_late(fl, cs) == MECS_FOREACH_from(fl, cs, 1)

MECS_FOREACH(fl, cs) == MECS_FOREACH_from(fl, cs, 0)

\* The conjunctions the demo scans for, and one three-way one.
Queries ==
    {{"position"}, {"position", "follower"}, {"position", "direction"},
     {"drawable", "position"}, {"position", "direction", "drawable"}}

\* -------------------------------------------------------------- actions

\* mecs_entity_create, called while an identifier below MAX_ENTITIES is
\* available (the stores have no slot for any other).
create_entity ==
    /\ em.free_count > 0 \/ em.next_entity < MAX_ENTITIES
    /\ UNCHANGED <<flag, val, nsets>>
    /\ LET r == mecs_entity_create(em) IN
        /\ live' = live \cup {r.ret}
        /\ released' = released \ {r.ret}
        /\ em' = r.em
    /\ visited' = NoScan
    /\ UNCHANGED <<score, pc>>

\* A destroy_entity that releases the identifier and clears nothing.
destroy_entity_noclear(e) ==
    /\ live' = live \ {e}
    /\ released' = released \cup {e}
    /\ UNCHANGED <<flag, val, nsets>>
    /\ em' = mecs_entity_destroy(em, e)
    /\ visited' = NoScan
    /\ UNCHANGED <<score, pc>>

\* destroy_entity(game, e): clear_components, then mecs_entity_destroy.
destroy_entity(e) ==
    /\ live' = live \ {e}
    /\ released' = released \cup {e}
    /\ UNCHANGED <<val, nsets>>
    /\ flag' = clear_components(flag, e)
    /\ em' = mecs_entity_destroy(em, e)
    /\ visited' = NoScan
    /\ UNCHANGED <<score, pc>>

\* MECS_SET_COMPONENT(game, c, e, v).
set_T(c, e, v) ==
    /\ nsets < MaxSets
    /\ nsets' = nsets + 1
    /\ UNCHANGED <<em, live, released>>
    /\ val' = MECS_SET_COMPONENT_value(val, c, e, v)
    /\ flag' = MECS_SET_COMPONENT_flag(flag, c, e)
    /\ visited' = NoScan
    /\ UNCHANGED <<score, pc>>

\* MECS_CLEAR_COMPONENT(game, c, e).
clear_T(c, e) ==
    /\ UNCHANGED <<nsets, live, released, em, val>>
    /\ flag' = MECS_CLEAR_COMPONENT(flag, c, e)
    /\ visited' = NoScan
    /\ UNCHANGED <<score, pc>>

\* A scan that consumes what it visits: it lowers the flags of the stores of
\* cs for every entity it passes to the body.
query_draining(cs) ==
    /\ visited' = [cs |-> cs, seq |-> MECS_FOREACH(flag, cs)]
    /\ flag' = [c \in Components |-> [e \in Slots |->
                   flag[c][e] /\ ~(c \in cs /\ \A c2 \in cs : flag[c2][e])]]
    /\ UNCHANGED <<em, val, live, released, nsets>>
    /\ UNCHANGED <<score, pc>>

\* One MECS_FOREACH scan over the stores cs, run to its end.
query(cs) ==
    /\ visited' = [cs |-> cs, seq |-> MECS_FOREACH(flag, cs)]
    /\ UNCHANGED <<em, flag, val, live, released, nsets>>
    /\ UNCHANGED <<score, pc>>

\* The registry driven as its contract asks: entities are destroyed while
\* live, and components are set on, and cleared from, live entities.
Next ==
    \/ create_entity
    \/ \E e \in live : destroy_entity(e)
    \/ \E c \in Components, e \in live : \E v \in Values(c) : set_T(c, e, v)
    \/ \E c \in Components, e \in live : clear_T(c, e)

Spec == Init /\ [][Next]_vars

\* --------------------------------------------------- the stores alone

\* set and clear on any slot in range, whether or not an entity lives there.
StoreNext ==
    \/ create_entity
    \/ \E c \in Components, e \in Slots : \E v \in Values(c) : set_T(c, e, v)
    \/ \E c \in Components, e \in Slots : clear_T(c, e)

StoreSpec == Init /\ [][StoreNext]_vars

\* ------------------------------------------------------------ the scans

\* A scan reads the flags of the stores it names and nothing else, so the
\* stores some scan names are filled, with one value each.
Scanned == UNION Queries

QueryNext ==
    \/ create_entity
    \/ \E e \in live : destroy_entity(e)
    \/ \E c \in Scanned, e \in live : set_T(c, e, FirstValue(c))
    \/ \E cs \in Queries : query(cs)

QuerySpec == Init /\ [][QueryNext]_vars

\* ------------------------------------------------- the allocator alone

Entities == 0 .. (MAX_ENTITIES + MaxOver - 1)

\* mecs_entity_create, called whatever the number of live entities.
AllocCreate ==
    /\ em.free_count > 0 \/ em.next_entity < MAX_ENTITIES + MaxOver
    /\ LET r == mecs_entity_create(em) IN
        /\ em' = r.em
        /\ live' = live \cup {r.ret}
        /\ released' = released \ {r.ret}
    /\ UNCHANGED <<flag, val, nsets, visited>>
    /\ UNCHANGED <<score, pc>>

\* mecs_entity_destroy, called on a live identifier.
AllocDestroy(e) ==
    /\ em' = mecs_entity_destroy(em, e)
    /\ live' = live \ {e}
    /\ released' = released \cup {e}
    /\ UNCHANGED <<flag, val, nsets, visited>>
    /\ UNCHANGED <<score, pc>>

AllocNext ==
    \/ AllocCreate
    \/ \E e \in live : AllocDestroy(e)

AllocSpec == Init /\ [][AllocNext]_vars

\* ------------------------------- the allocator, with no precondition

\* The free_list subscript mecs_entity_create uses on allocator m, if any:
\* free_list[--free_count] on the reuse branch.
mecs_entity_create_index(m) ==
    IF m.free_count > 0 THEN {m.free_count - 1} ELSE {}

\* The free_list subscript mecs_entity_destroy uses on allocator m, if any:
\* free_list[free_count++] under the free_count < MAX_ENTITIES test.
mecs_entity_destroy_index(m) ==
    IF m.free_count < MAX_ENTITIES THEN {m.free_count} ELSE {}

\* Create and destroy in any order, destroy on any identifier: live, already
\* destroyed or never issued.
RawAllocNext ==
    \/ AllocCreate
    \/ \E e \in Entities : AllocDestroy(e)

RawAllocSpec == Init /\ [][RawAllocNext]_vars

\* ------------------------------------------------------- the snake demo

\* mecs_snake.c:27-28.
WIDTH == 20
HEIGHT == 10

\* mecs_snake.c:29, (Entity)-1: the largest unsigned int, written -1 here.
\* No identifier of a run reaches it; an Entity e is below MAX_ENTITIES in
\* the unsigned comparison exactly when e \in Slots.
INVALID_ENTITY == -1

\* The lengths init_snake is called with (main passes 3).
MaxLength == 3

\* The cells rand() % WIDTH, rand() % HEIGHT yields in place_edible, cut down
\* to two cells ahead of the snake's starting head and one off its row.
RandCells == {[x |-> 6, y |-> 5], [x |-> 7, y |-> 5], [x |-> 6, y |-> 4]}

\* The keys get_key() returns to handle_input: the four it maps, and any other.
Keys == {"w", "s", "a", "d", "other"}

\* The SnakeWorld, as a value the demo's functions take and give back;
\* rejected records that place_edible drew an occupied cell.
World ==
    [em |-> em, flag |-> flag, val |-> val, score |-> score,
     live |-> live, released |-> released, nsets |-> nsets, rejected |-> FALSE]

\* MECS_SET_COMPONENT(game, c, e, v). A write at e outside the arrays is
\* undefined behaviour; such a world is never taken as a step's result.
set_component(w, c, e, v) ==
    [w EXCEPT !.val = MECS_SET_COMPONENT_value(@, c, e, v),
              !.flag = MECS_SET_COMPONENT_flag(@, c, e),
              !.nsets = @ + 1]

\* mecs_entity_create(&game->em): the world after the call, the identifier.
create_in(w) ==
    LET r == mecs_entity_create(w.em) IN
        [w   |-> [w EXCEPT !.em = r.em,
                           !.live = @ \cup {r.ret},
                           !.released = @ \ {r.ret}],
         ret |-> r.ret]

\* Every identifier issued so far indexes the arrays.
InRange(w) == w.live \subseteq Slots

create_snake_head(w, pos, dir) ==
    LET c    == create_in(w)
        head == c.ret
        w1   == set_component(c.w, "interactable", head, <<>>)
        w2   == set_component(w1, "direction", head, dir)
        w3   == set_component(w2, "consumer", head, <<>>)
        w4   == set_component(w3, "drawable", head, [symbol |-> 79])
        w5   == set_component(w4, "position", head, pos)
        w6   == set_component(w5, "collidable", head, <<>>)
    IN [w |-> w6, ret |-> head]

\* A create_snake_segment that makes the new segment follow itself.
create_snake_segment_self(w, pos, follows) ==
    LET c       == create_in(w)
        segment == c.ret
        w1      == set_component(c.w, "position", segment, pos)
        w2      == set_component(w1, "follower", segment, segment)
        w3      == set_component(w2, "drawable", segment, [symbol |-> 111])
        w4      == set_component(w3, "collidable", segment, <<>>)
    IN [w |-> w4, ret |-> segment]

create_snake_segment(w, pos, follows) ==
    LET c       == create_in(w)
        segment == c.ret
        w1      == set_component(c.w, "position", segment, pos)
        w2      == set_component(w1, "follower", segment, follows)
        w3      == set_component(w2, "drawable", segment, [symbol |-> 111])
        w4      == set_component(w3, "collidable", segment, <<>>)
    IN [w |-> w4, ret |-> segment]

\* init_snake's loop from index i on; prev is snake[i - 1].
RECURSIVE init_snake_from(_, _, _, _)
init_snake_from(w, length, i, prev) ==
    IF ~(i < length) THEN w
    ELSE LET pos == [x |-> 5 - i, y |-> 5]
             c   == IF i = 0
                    THEN create_snake_head(w, pos, RIGHT)
                    ELSE create_snake_segment(w, pos, prev)
         IN init_snake_from(c.w, length, i + 1, c.ret)

init_snake(w, length) == init_snake_from(w, length, 0, INVALID_ENTITY)

\* last_follower's first loop from the i-th visited entity on: map[l] = e
\* for each entity e with a position and a follower value l below
\* MAX_ENTITIES, later entities overwriting earlier ones.
RECURSIVE last_follower_map(_, _, _, _)
last_follower_map(w, map, seq, i) ==
    IF i > Len(seq) THEN map
    ELSE LET e == seq[i]
             l == w.val["follower"][e]
         IN last_follower_map(w,
                              IF l \in Slots THEN [map EXCEPT ![l] = e] ELSE map,
                              seq, i + 1)

\* last_follower's second loop: down the map from current.
RECURSIVE last_follower_walk(_, _)
last_follower_walk(map, current) ==
    IF current \in Slots /\ map[current] # INVALID_ENTITY
    THEN last_follower_walk(map, map[current])
    ELSE current

\* A last_follower that stops one step down the map.
last_follower_one(w, lead) ==
    LET map == last_follower_map(w, [l \in Slots |-> INVALID_ENTITY],
                                 MECS_FOREACH(w.flag, {"position", "follower"}), 1)
    IN IF lead \in Slots /\ map[lead] # INVALID_ENTITY THEN map[lead] ELSE lead

last_follower(w, lead) ==
    LET map == last_follower_map(w, [l \in Slots |-> INVALID_ENTITY],
                                 MECS_FOREACH(w.flag, {"position", "follower"}), 1)
    IN last_follower_walk(map, lead)

grow(w, lead) ==
    LET tail == last_follower(w, lead) IN
        create_snake_segment(w, w.val["position"][tail], tail).w

init_apple(w) ==
    LET c     == create_in(w)
        apple == c.ret
        w1    == set_component(c.w, "drawable", apple, [symbol |-> 64])
        w2    == set_component(w1, "edible", apple,
                               [points |-> 1, grows |-> TRUE, resets |-> TRUE])
        w3    == set_component(w2, "position", apple, [x |-> 0, y |-> 0])
    IN [w |-> w3, ret |-> apple]

is_occupied(w, pos) ==
    \E e \in Slots : MECS_HAS_COMPONENT(w.flag, "position", e) /\ w.val["position"][e] = pos

\* place_edible, pos being the draw its do-while loop ends on (a draw on an
\* occupied cell is redone by the loop, so it ends no call).
place_edible(w, edible, pos) ==
    [set_component(w, "position", edible, pos) EXCEPT
        !.rejected = @ \/ is_occupied(w, pos)]

\* The switch of update_interactables on position p and direction d.
step_position(p, d) ==
    CASE d = UP    -> [p EXCEPT !.y = @ - 1]
      [] d = DOWN  -> [p EXCEPT !.y = @ + 1]
      [] d = LEFT  -> [p EXCEPT !.x = @ - 1]
      [] d = RIGHT -> [p EXCEPT !.x = @ + 1]
      [] OTHER     -> p

\* The record of one MECS_FOREACH_2(position, follower) scan run to its end.
FollowerScan(seen) == [cs |-> {"position", "follower"}, seq |-> seen]

\* An update_followers_of whose body retires the follower it has moved, by
\* lowering its follower flag. (Same recursion as the function below.)
RECURSIVE update_followers_retiring(_, _, _, _)
update_followers_retiring(st, leader, e, seen) ==
    IF ~(e < MAX_ENTITIES)
    THEN [st EXCEPT !.log = Append(@, FollowerScan(seen))]
    ELSE IF /\ MECS_HAS_COMPONENT(st.w.flag, "position", e)
            /\ MECS_HAS_COMPONENT(st.w.flag, "follower", e)
         THEN LET body ==
                    IF st.w.val["follower"][e] = leader
                    THEN LET s1 == update_followers_retiring(st, e, 0, <<>>)
                         IN [s1 EXCEPT
                               !.w.val["position"][e] = s1.w.val["position"][leader],
                               !.w.flag["follower"][e] = FALSE]
                    ELSE st
              IN update_followers_retiring(body, leader, e + 1, Append(seen, e))
         ELSE update_followers_retiring(st, leader, e + 1, seen)

\* An update_followers_of that moves a follower before it updates the
\* followers of that follower.
RECURSIVE update_followers_early(_, _, _, _)
update_followers_early(st, leader, e, seen) ==
    IF ~(e < MAX_ENTITIES)
    THEN [st EXCEPT !.log = Append(@, FollowerScan(seen))]
    ELSE IF /\ MECS_HAS_COMPONENT(st.w.flag, "position", e)
            /\ MECS_HAS_COMPONENT(st.w.flag, "follower", e)
         THEN LET body ==
                    IF st.w.val["follower"][e] = leader
                    THEN update_followers_early(
                             [st EXCEPT !.w.val["position"][e] =
                                            st.w.val["position"][leader]],
                             e, 0, <<>>)
                    ELSE st
              IN update_followers_early(body, leader, e + 1, Append(seen, e))
         ELSE update_followers_early(st, leader, e + 1, seen)

\* update_followers_of(game, leader), its scan standing at entity e with
\* seen visited so far. st.w is the world, st.log the scans ended so far.
\* The presence flags are read when the scan reaches e; *leader_pos is read
\* when the assignment runs, after the recursive call.
RECURSIVE update_followers_of(_, _, _, _)
update_followers_of(st, leader, e, seen) ==
    IF ~(e < MAX_ENTITIES)
    THEN [st EXCEPT !.log = Append(@, FollowerScan(seen))]
    ELSE IF /\ MECS_HAS_COMPONENT(st.w.flag, "position", e)
            /\ MECS_HAS_COMPONENT(st.w.flag, "follower", e)
         THEN LET body ==
                    IF st.w.val["follower"][e] = leader
                    THEN LET s1 == update_followers_of(st, e, 0, <<>>)
                         IN [s1 EXCEPT
                               !.w.val["position"][e] = s1.w.val["position"][leader]]
                    ELSE st
              IN update_followers_of(body, leader, e + 1, Append(seen, e))
         ELSE update_followers_of(st, leader, e + 1, seen)

\* update_interactables, its scan standing at entity e: d is read before
\* the followers move, *p is stepped after.
RECURSIVE update_interactables_from(_, _, _)
update_interactables_from(st, e, seen) ==
    IF ~(e < MAX_ENTITIES)
    THEN [w |-> st.w, log |-> st.log, seq |-> seen]
    ELSE IF /\ MECS_HAS_COMPONENT(st.w.flag, "position", e)
            /\ MECS_HAS_COMPONENT(st.w.flag, "direction", e)
         THEN LET d  == st.w.val["direction"][e]
                  s1 == update_followers_of(st, e, 0, <<>>)
                  s2 == [s1 EXCEPT !.w.val["position"][e] = step_position(@, d)]
              IN update_interactables_from(s2, e + 1, Append(seen, e))
         ELSE update_interactables_from(st, e + 1, seen)

\* update_interactables(game): the world after it, the entities its outer
\* scan visited (seq) and the record of every nested scan (log).
update_interactables(w) == update_interactables_from([w |-> w, log |-> <<>>], 0, <<>>)

\* destroy_entity(game, e) on a world value.
destroy_entity_in(w, e) ==
    [w EXCEPT !.flag = clear_components(@, e),
              !.em = mecs_entity_destroy(@, e),
              !.live = @ \ {e},
              !.released = @ \cup {e}]

\* The inner scan of update_edibles for one mouth, standing at entity food;
\* cell is the draw place_edible ends on.
RECURSIVE update_edibles_food(_, _, _, _)
update_edibles_food(w, mouth, food, cell) ==
    IF ~(food < MAX_ENTITIES) THEN w
    ELSE IF /\ MECS_HAS_COMPONENT(w.flag, "position", food)
            /\ MECS_HAS_COMPONENT(w.flag, "edible", food)
            /\ w.val["position"][mouth] = w.val["position"][food]
         THEN LET w1 == [w EXCEPT !.score = @ + w.val["edible"][food].points]
                  w2 == IF w1.val["edible"][food].grows THEN grow(w1, mouth) ELSE w1
                  w3 == IF w2.val["edible"][food].resets
                        THEN place_edible(w2, food, cell)
                        ELSE destroy_entity_in(w2, food)
              IN update_edibles_food(w3, mouth, food + 1, cell)
         ELSE update_edibles_food(w, mouth, food + 1, cell)

\* The outer scan of update_edibles, standing at entity mouth.
RECURSIVE update_edibles_from(_, _, _)
update_edibles_from(w, mouth, cell) ==
    IF ~(mouth < MAX_ENTITIES) THEN w
    ELSE IF /\ MECS_HAS_COMPONENT(w.flag, "position", mouth)
            /\ MECS_HAS_COMPONENT(w.flag, "consumer", mouth)
         THEN update_edibles_from(update_edibles_food(w, mouth, 0, cell), mouth + 1, cell)
         ELSE update_edibles_from(w, mouth + 1, cell)

update_edibles(w, cell) == update_edibles_from(w, 0, cell)

game_over(w) ==
    \E i \in Slots :
        /\ MECS_HAS_COMPONENT(w.flag, "position", i)
        /\ MECS_HAS_COMPONENT(w.flag, "interactable", i)
        /\ LET ipos == w.val["position"][i] IN
            \/ ipos.x < 0 \/ ipos.x >= WIDTH \/ ipos.y < 0 \/ ipos.y >= HEIGHT
            \/ \E c \in Slots \ {i} :
                /\ MECS_HAS_COMPONENT(w.flag, "position", c)
                /\ MECS_HAS_COMPONENT(w.flag, "collidable", c)
                /\ w.val["position"][c] = ipos

\* The four tests of handle_input's loop body on the current direction.
turn(current, key) ==
    CASE key = "w" /\ current # DOWN  -> UP
      [] key = "s" /\ current # UP    -> DOWN
      [] key = "d" /\ current # LEFT  -> RIGHT
      [] key = "a" /\ current # RIGHT -> LEFT
      [] OTHER                        -> current

handle_input(w, key) ==
    IF key \notin {"w", "s", "a", "d"} THEN w
    ELSE [w EXCEPT !.val["direction"] =
            [e \in Slots |->
                IF /\ MECS_HAS_COMPONENT(w.flag, "interactable", e)
                   /\ MECS_HAS_COMPONENT(w.flag, "direction", e)
                THEN turn(@[e], key)
                ELSE @[e]]]

\* The step's result is world w.
Becomes(w) ==
    /\ em' = w.em
    /\ flag' = w.flag
    /\ val' = w.val
    /\ score' = w.score
    /\ live' = w.live
    /\ released' = w.released
    /\ nsets' = w.nsets

\* main: init_snake(game, length).
Start(length) ==
    /\ pc = "new"
    /\ LET w == init_snake(World, length) IN InRange(w) /\ Becomes(w)
    /\ pc' = "apple"
    /\ visited' = NoScan

\* main: place_edible(game, init_apple(game)), while an identifier below
\* MAX_ENTITIES is left for the apple.
Apple(cell) ==
    /\ pc = "apple"
    /\ LET a == init_apple(World)
           w == place_edible(a.w, a.ret, cell)
       IN InRange(w) /\ ~w.rejected /\ Becomes(w)
    /\ pc' = "input"
    /\ visited' = NoScan

\* The loop entered with the snake alone in the world.
NoApple ==
    /\ pc = "apple"
    /\ pc' = "input"
    /\ UNCHANGED <<em, flag, val, score, live, released, nsets, visited>>

\* main's loop: handle_input(game) with get_key() returning key.
Input(key) ==
    /\ pc = "input"
    /\ Becomes(handle_input(World, key))
    /\ pc' = "move"
    /\ visited' = NoScan

\* update_state: update_interactables(game).
Move ==
    /\ pc = "move"
    /\ LET r == update_interactables(World) IN
        /\ Becomes(r.w)
        /\ visited' = [cs |-> {"position", "direction"}, seq |-> r.seq]
    /\ pc' = "eat"

\* update_state: update_edibles(game), place_edible ending on cell; a meal
\* is taken while an identifier below MAX_ENTITIES is left for the growth.
Eat(cell) ==
    /\ pc = "eat"
    /\ LET w == update_edibles(World, cell) IN
        InRange(w) /\ ~w.rejected /\ Becomes(w)
    /\ pc' = "check"
    /\ visited' = NoScan

\* main's loop: if (game_over(game)) break.
Check ==
    /\ pc = "check"
    /\ pc' = IF game_over(World) THEN "over" ELSE "input"
    /\ UNCHANGED <<em, flag, val, score, live, released, nsets, visited>>

\* grow(game, lead) called between two turns of the loop on a head, while an
\* identifier below MAX_ENTITIES is left.
Grow(lead) ==
    /\ pc = "input"
    /\ MECS_HAS_COMPONENT(flag, "consumer", lead)
    /\ LET w == grow(World, lead) IN InRange(w) /\ Becomes(w)
    /\ UNCHANGED pc
    /\ visited' = NoScan

SnakeNext ==
    \/ \E length \in 1 .. MaxLength : Start(length)
    \/ \E cell \in RandCells : Apple(cell)
    \/ NoApple
    \/ \E key \in Keys : Input(key)
    \/ Move
    \/ \E cell \in RandCells : Eat(cell)
    \/ Check
    \/ \E lead \in Slots : Grow(lead)

SnakeSpec == Init /\ [][SnakeNext]_vars

\* ---------------------------------------------------------------- claims

\* C1: whenever destroy is applied to live identifiers only, create never
\* returns an identifier that is live at the time of the call, so no two
\* live entities share an identifier.
Thm_C1_CreateReturnsNonLive ==
    [][AllocCreate => mecs_entity_create(em).ret \notin live]_vars

\* Identifier 1 was destroyed and reissued from the free list while 0 and 2
\* stayed live.
Wit_C1_Reissued ==
    /\ live = {0, 1, 2}
    /\ em.free_count = 0
    /\ em.free_list[0] = 1

\* C4: with MAX_ENTITIES entities live and the free list empty, create
\* issues no identifier and leaves next_entity and the free list unchanged.
Claim_C4_CapacityExhausted ==
    [][(/\ Cardinality(live) = MAX_ENTITIES
        /\ em.free_count = 0
        /\ AllocCreate) => (em' = em /\ live' = live)]_vars

\* C10: every identifier on the free list is below next_entity, was
\* destroyed and not reissued since, is not live, and is there once.
Thm_C10_FreeListInvariant ==
    /\ \A i \in 0 .. (em.free_count - 1) :
        /\ em.free_list[i] < em.next_entity
        /\ em.free_list[i] \in released
        /\ em.free_list[i] \notin live
    /\ \A i, j \in 0 .. (em.free_count - 1) :
        i # j => em.free_list[i] # em.free_list[j]

\* Two identifiers are on the free list while a third, once destroyed and
\* reissued, is live again.
Wit_C10_TwoFree ==
    /\ em.free_count = 2
    /\ em.free_list[0] = 2
    /\ em.free_list[1] = 0
    /\ live = {1}
    /\ em.free_list[2] = 1

\* A step that changes the state. (A step that changes nothing keeps every
\* [A]_vars true, so the formulas below look at the other steps only.)
Changed == vars' # vars

\* C2: right after destroy_entity(e), has_T(e) is false for every store T,
\* whatever e carried before.
Thm_C2_DestroyClearsAll ==
    [][\A e \in live :
         destroy_entity(e) => \A c \in Components : ~MECS_HAS_COMPONENT(flag', c, e)]_vars

\* Entity 1 was destroyed while it carried a position, a direction and the
\* collidable tag (the stale values and the set count show it).
Wit_C2_DestroyedCarrier ==
    /\ released = {1}
    /\ nsets = 3
    /\ val["position"][1] = FirstValue("position")
    /\ val["direction"][1] = RIGHT
    /\ \A c \in Components : ~flag[c][1]
    /\ \A c \in Components : ~flag[c][0]

\* C3: every identifier create_entity returns, fresh or reused, has has_T
\* false for every store T at the moment it is returned.
Thm_C3_IssuedIsBare ==
    [][create_entity =>
         \A c \in Components :
             ~MECS_HAS_COMPONENT(flag', c, mecs_entity_create(em).ret)]_vars

\* Identifier 1 carried a position, was destroyed and has been reissued:
\* the old value is still in the array and every flag is down.
Wit_C3_Reused ==
    /\ 1 \in live
    /\ em.free_count = 0
    /\ em.free_list[0] = 1
    /\ val["position"][1] = FirstValue("position")
    /\ \A c \in Components : ~flag[c][1]

\* The entities with all the stores of cs, as a set.
Matching(cs) == {e \in Slots : \A c \in cs : MECS_HAS_COMPONENT(flag, c, e)}

\* s visits exactly the entities of set m, each once, in ascending order.
VisitsAscending(s, m) ==
    /\ {s[i] : i \in 1 .. Len(s)} = m
    /\ \A i, j \in 1 .. Len(s) : i < j => s[i] < s[j]

\* C5: in every reachable store state a scan over one, two or three stores
\* visits exactly the entities that have them all, each once, in strictly
\* ascending identifier order.
Thm_C5_QueryExact ==
    /\ \A cs \in Queries : VisitsAscending(MECS_FOREACH(flag, cs), Matching(cs))
    /\ visited.cs # {} => VisitsAscending(visited.seq, Matching(visited.cs))

\* The two-store scan visited entity 1 and passed over entity 0, which has
\* a position and no direction.
Wit_C5_SkipsPartial ==
    /\ visited.cs = {"position", "direction"}
    /\ visited.seq = <<1>>
    /\ flag["position"][0]
    /\ ~flag["direction"][0]

\* The one-store scan visited 0 and 2, in that order, and passed over the
\* live entity 1.
Wit_C5_Ascending ==
    /\ visited.cs = {"position"}
    /\ visited.seq = <<0, 2>>
    /\ 1 \in live

\* The three-store scan visited the one entity that has all three.
Wit_C5_ThreeWay ==
    /\ visited.cs = {"position", "direction", "drawable"}
    /\ visited.seq = <<1>>

\* C6: set_T(e, v) followed at once by get_T(e) gives v, and has_T(e) is
\* true, whether e held nothing or another value before.
Thm_C6_SetThenGet ==
    [][\A c \in Components, e \in Slots : \A v \in Values(c) :
         set_T(c, e, v) =>
             /\ get(flag', val', c, e) = Some(v)
             /\ MECS_HAS_COMPONENT(flag', c, e)]_vars

\* Slot 2's position was set twice, the second value over the first.
Wit_C6_Overwritten ==
    /\ nsets = 2
    /\ flag["position"][2]
    /\ val["position"][2] = [x |-> 4, y |-> 5]
    /\ \A c \in Components, e \in Slots :
         (c # "position" \/ e # 2) => (~flag[c][e] /\ val[c][e] = ZeroValue(c))

\* C7: after clear_T(e), get_T(e) and has_T(e) report absent; a second
\* clear_T(e) changes nothing more, and clearing an absent component
\* changes nothing at all.
Thm_C7_ClearIdempotent ==
    [][Changed => \A c \in Components, e \in Slots :
         clear_T(c, e) =>
             /\ ~MECS_HAS_COMPONENT(flag', c, e)
             /\ get(flag', val', c, e) = Absent
             /\ MECS_CLEAR_COMPONENT(flag', c, e) = flag'
             /\ ~MECS_HAS_COMPONENT(flag, c, e) =>
                    (flag' = flag /\ val' = val /\ em' = em)]_vars

\* Slot 1's position was set and then cleared: the value is still stored
\* and the flag is down.
Wit_C7_Cleared ==
    /\ ~flag["position"][1]
    /\ val["position"][1] = FirstValue("position")
    /\ get(flag, val, "position", 1) = Absent

\* Every slot of every store but slot e is as it was.
OtherEntitiesKept(e) ==
    \A c \in Components, e2 \in Slots \ {e} :
        /\ flag'[c][e2] = flag[c][e2]
        /\ val'[c][e2] = val[c][e2]

\* C8: destroy_entity(e) leaves the flag and the value of every component
\* of every other entity unchanged.
Thm_C8_DestroyFrame ==
    [][\A e \in live : destroy_entity(e) => OtherEntitiesKept(e)]_vars

\* Three entities had a position each and the middle one was destroyed:
\* the position scan gives the first and the third, with their values.
Wit_C8_MiddleDestroyed ==
    /\ released = {1}
    /\ live = {0, 2}
    /\ nsets = 3
    /\ MECS_FOREACH(flag, {"position"}) = <<0, 2>>
    /\ val["position"][0] = [x |-> 5, y |-> 5]
    /\ val["position"][1] = [x |-> 4, y |-> 5]
    /\ val["position"][2] = [x |-> 5, y |-> 5]

\* Every entry but store c's slot e is as it was, and so is the allocator.
OtherEntriesKept(c, e) ==
    /\ em' = em
    /\ \A c2 \in Components \ {c} : flag'[c2] = flag[c2] /\ val'[c2] = val[c2]
    /\ \A e2 \in Slots \ {e} : flag'[c][e2] = flag[c][e2] /\ val'[c][e2] = val[c][e2]

\* C9: set_T(e, v) and clear_T(e) change store T's entry for slot e and
\* nothing else: no other store, no other slot, not the allocator.
Thm_C9_StoresIndependent ==
    [][Changed => \A c \in Components, e \in Slots :
         /\ clear_T(c, e) => OtherEntriesKept(c, e)
         /\ \A v \in Values(c) : set_T(c, e, v) => OtherEntriesKept(c, e)]_vars

\* Two stores hold a value for slot 0, one of them also for slot 1, and an
\* entity has been issued; then one of the entries was cleared.
Wit_C9_Neighbours ==
    /\ em.next_entity = 1
    /\ ~flag["position"][0]
    /\ val["position"][0] = FirstValue("position")
    /\ flag["direction"][0]
    /\ flag["position"][1]

\* The active entries of allocator m's free list, bottom first.
FreeEntries(m) == [i \in 1 .. m.free_count |-> m.free_list[i - 1]]

\* The identifier the create step handed out: the one that became live.
Issued == CHOOSE e \in live' : e \notin live

\* C11: create follows a stack discipline. With a non-empty free list it
\* returns the entry pushed last, removes exactly that entry and leaves
\* next_entity alone; with an empty free list it returns next_entity,
\* advances next_entity by one and leaves the free list alone.
Thm_C11_CreateStack ==
    [][AllocCreate =>
         IF em.free_count > 0
         THEN /\ Issued = em.free_list[em.free_count - 1]
              /\ Append(FreeEntries(em'), Issued) = FreeEntries(em)
              /\ em'.next_entity = em.next_entity
         ELSE /\ Issued = em.next_entity
              /\ em'.next_entity = em.next_entity + 1
              /\ FreeEntries(em') = FreeEntries(em)]_vars

\* Identifiers 0 and then 2 were destroyed and one create followed: 2, the
\* later push, is live again and 0 is still on the list.
Wit_C11_PoppedLatest ==
    /\ em.next_entity = 3
    /\ em.free_count = 1
    /\ em.free_list[0] = 0
    /\ em.free_list[1] = 2
    /\ live = {1, 2}

\* C12: destroy(e) on a live e pushes e: the free count grows by one, e is
\* the top entry and the next create returns e.
Claim_C12_DestroyPushes ==
    [][\A e \in live :
         AllocDestroy(e) =>
             /\ em'.free_count = em.free_count + 1
             /\ em'.free_list[em.free_count] = e
             /\ mecs_entity_create(em').ret = e]_vars

\* C15: every identifier create returns lies in 0 .. MAX_ENTITIES - 1.
Claim_C15_IssuedInRange ==
    [][AllocCreate => mecs_entity_create(em).ret \in Slots]_vars

\* C16: whatever the sequence of create and destroy calls, double destroys
\* and destroys of never-issued identifiers included, free_count stays in
\* 0 .. MAX_ENTITIES, every free_list subscript the two functions use lies in
\* 0 .. MAX_ENTITIES - 1, and a destroy issued while the free list is full
\* changes nothing in the allocator.
Thm_C16_FreeListBounded ==
    /\ [](/\ em.free_count \in 0 .. MAX_ENTITIES
          /\ DOMAIN em.free_list = Slots
          /\ mecs_entity_create_index(em) \subseteq Slots
          /\ mecs_entity_destroy_index(em) \subseteq Slots)
    /\ [][\A e \in Entities :
            (em.free_count = MAX_ENTITIES /\ AllocDestroy(e)) => em' = em]_vars

\* Identifier 1 was destroyed three times over, which filled the free list,
\* and the destroy of 0 that followed was dropped: 0 is nowhere on the list.
Wit_C16_FullAfterDoubleDestroy ==
    /\ em.free_count = MAX_ENTITIES
    /\ \A i \in Slots : em.free_list[i] = 1
    /\ em.next_entity = 2
    /\ released = {0, 1}
    /\ live = {}

IsHead(fl, e) ==
    MECS_HAS_COMPONENT(fl, "position", e) /\ MECS_HAS_COMPONENT(fl, "direction", e)

\* Entity e has a position and a follower value: it follows a leader.
IsSegment(fl, e) ==
    MECS_HAS_COMPONENT(fl, "position", e) /\ MECS_HAS_COMPONENT(fl, "follower", e)

\* The entities met going up from e, leader after leader, in at most n steps.
RECURSIVE Leaders(_, _, _, _)
Leaders(fl, vl, e, n) ==
    IF n = 0 \/ ~MECS_HAS_COMPONENT(fl, "follower", e) THEN {}
    ELSE {vl["follower"][e]} \cup
         (IF vl["follower"][e] \in Slots
          THEN Leaders(fl, vl, vl["follower"][e], n - 1)
          ELSE {})

\* No entity is its own leader, at any distance.
Acyclic(fl, vl) == \A e \in Slots : e \notin Leaders(fl, vl, e, MAX_ENTITIES)

\* C14: the scans of a movement step overwrite positions and change no
\* flag, and each of them still visits exactly the entities that matched
\* its stores when the step began, once each, in ascending order: the outer
\* scan over position and direction, and every nested scan over position
\* and follower.
Thm_C14_ScansKeepTheirSet ==
    LET r == update_interactables(World) IN
        /\ r.w.flag = flag
        /\ r.seq = MECS_FOREACH(flag, {"position", "direction"})
        /\ VisitsAscending(r.seq, Matching({"position", "direction"}))
        /\ Len(r.log) >= Len(r.seq)
        /\ \A i \in 1 .. Len(r.log) :
             /\ r.log[i].seq = MECS_FOREACH(flag, {"position", "follower"})
             /\ VisitsAscending(r.log[i].seq, Matching({"position", "follower"}))
        /\ pc = "eat" => visited.seq = MECS_FOREACH(flag, visited.cs)

\* A movement step has run on a head with two segments behind it: the outer
\* scan visited the head while the nested scans rewrote both segments.
Wit_C14_MovedWhileScanned ==
    /\ pc = "eat"
    /\ visited.seq = <<0>>
    /\ val["position"][0] = [x |-> 6, y |-> 5]
    /\ val["position"][1] = [x |-> 5, y |-> 5]
    /\ val["position"][2] = [x |-> 4, y |-> 5]
    /\ flag["follower"][1] /\ flag["follower"][2]

Thm_C18_FollowersSound ==
    /\ Acyclic(flag, val)
    /\ \A e \in Slots :
         MECS_HAS_COMPONENT(flag, "follower", e) =>
             /\ val["follower"][e] \in live \cap Slots
             /\ MECS_HAS_COMPONENT(flag, "position", val["follower"][e])
             /\ \E h \in Leaders(flag, val, e, MAX_ENTITIES) \cap Slots :
                    IsHead(flag, h)

\* The head ate the apple: the score is 1, segment 2 was grown behind head
\* 0 and the apple, entity 1, was placed again.
Wit_C18_GrownByMeal ==
    /\ pc = "check"
    /\ score = 1
    /\ flag["edible"][1]
    /\ val["position"][1] = [x |-> 7, y |-> 5]
    /\ flag["follower"][2]
    /\ val["follower"][2] = 0
    /\ val["position"][0] = [x |-> 6, y |-> 5]

\* The entities that follow x.
FollowersOf(fl, vl, x) == {e \in Slots : IsSegment(fl, e) /\ vl["follower"][e] = x}

\* The chain hanging from x: x, an entity that follows x, one that follows
\* that one, and so on for at most n links.
RECURSIVE Chain(_, _, _, _)
Chain(fl, vl, x, n) ==
    IF n = 0 \/ FollowersOf(fl, vl, x) = {} THEN <<x>>
    ELSE <<x>> \o Chain(fl, vl, CHOOSE e \in FollowersOf(fl, vl, x) : TRUE, n - 1)

\* The chain hanging from lead is linear and acyclic: no entity of it has
\* two followers and none comes twice.
Linear(fl, vl, lead) ==
    LET ch == Chain(fl, vl, lead, MAX_ENTITIES) IN
        /\ \A i \in 1 .. Len(ch) : Cardinality(FollowersOf(fl, vl, ch[i])) <= 1
        /\ \A i, j \in 1 .. Len(ch) : i # j => ch[i] # ch[j]

\* C19: for a linear, acyclic chain hanging from lead, last_follower(lead)
\* is the entity at the end of the chain (lead itself when nothing follows
\* it), and grow(lead) adds exactly one entity, which follows that tail and
\* stands on the tail's position; the components of every other entity are
\* unchanged and the chain is linear and one longer.
Thm_C19_GrowAppends ==
    /\ [](\A lead \in Slots :
            (IsHead(flag, lead) /\ Linear(flag, val, lead)) =>
                LET ch == Chain(flag, val, lead, MAX_ENTITIES) IN
                    last_follower(World, lead) = ch[Len(ch)])
    /\ [][\A lead \in Slots :
            (Grow(lead) /\ Linear(flag, val, lead)) =>
                LET ch   == Chain(flag, val, lead, MAX_ENTITIES)
                    tail == ch[Len(ch)]
                IN /\ Cardinality(live' \ live) = 1
                   /\ live \subseteq live'
                   /\ MECS_HAS_COMPONENT(flag', "follower", Issued)
                   /\ val'["follower"][Issued] = tail
                   /\ MECS_HAS_COMPONENT(flag', "position", Issued)
                   /\ val'["position"][Issued] = val["position"][tail]
                   /\ val'["position"][Issued] = val'["position"][tail]
                   /\ OtherEntitiesKept(Issued)
                   /\ Linear(flag', val', lead)
                   /\ Chain(flag', val', lead, MAX_ENTITIES) = Append(ch, Issued)]_vars

\* grow ran on a head with one segment: entity 2 follows the old tail 1 and
\* stands on its cell, and head and old tail are where init_snake put them.
Wit_C19_GrownBehindTail ==
    /\ pc = "input"
    /\ live = {0, 1, 2}
    /\ val["follower"][2] = 1 /\ flag["follower"][2]
    /\ val["follower"][1] = 0 /\ flag["follower"][1]
    /\ val["position"][2] = [x |-> 4, y |-> 5]
    /\ val["position"][1] = [x |-> 4, y |-> 5]
    /\ val["position"][0] = [x |-> 5, y |-> 5]

====
